---- MODULE Spec2Model ----
(***************************************************************************)
(* The retrieval-augmented chat backend of packages/webapi/server.js:      *)
(* the PDF chunker (loadPDF), the keyword retriever                        *)
(* (retrieveRelevantContent), the session memory store (getSessionMemory)  *)
(* and the POST /chat handler.                                             *)
(*                                                                         *)
(* A JavaScript string is a sequence of one-character strings.  The fixed  *)
(* literal texts of the system prompts are single symbols ("<EXCERPTS>",   *)
(* ...) of such a sequence.                                                *)
(***************************************************************************)
EXTENDS Integers, Sequences, FiniteSets, TLC

(***************************************************************************)
(* Strings                                                                 *)
(***************************************************************************)

\* The characters /\s/ matches, among those the model's texts are made of.
WhiteSpace == {" ", "\n"}

\* The characters of the class [.,?!;:()"'] that line 89 removes.
Punctuation == {".", ",", "?", "!", ";", ":", "(", ")", "\"", "'"}

\* String.prototype.toLowerCase on one character.
LowerChar(c) ==
    CASE c = "A" -> "a" [] c = "E" -> "e" [] c = "L" -> "l"
      [] c = "P" -> "p" [] c = "V" -> "v" [] c = "Y" -> "y"
      [] OTHER -> c

toLowerCase(s) == [i \in 1..Len(s) |-> LowerChar(s[i])]

\* The k-th smallest element of a finite set of integers.
KthSmallest(S, k) == CHOOSE x \in S : Cardinality({y \in S : y < x}) = k - 1

\* s.split(/\s+/): the pieces of s between its maximal runs of white space.  A
\* run at the start or the end of s leaves an empty piece there, and the empty
\* string splits into one empty piece.
SplitWS(s) ==
    LET n == Len(s)
        starts == {1} \cup {i + 1 : i \in {j \in 1..n : s[j] \in WhiteSpace
                                     /\ (j = n \/ s[j + 1] \notin WhiteSpace)}}
        ends == {n} \cup {i - 1 : i \in {j \in 1..n : s[j] \in WhiteSpace
                                   /\ (j = 1 \/ s[j - 1] \notin WhiteSpace)}}
    IN  [k \in 1..Cardinality(starts) |->
            SubSeq(s, KthSmallest(starts, k), KthSmallest(ends, k))]

\* Array.prototype.join.
RECURSIVE Join(_, _)
Join(strs, sep) ==
    IF strs = <<>> THEN <<>>
    ELSE IF Len(strs) = 1 THEN strs[1]
    ELSE strs[1] \o sep \o Join(Tail(strs), sep)

\* FilterLong with the bound of line 88 off by one: term.length >= 3.
RECURSIVE FilterLong_AtLeast3(_)
FilterLong_AtLeast3(terms) ==
    IF terms = <<>> THEN <<>>
    ELSE IF Len(terms[1]) >= 3 THEN <<terms[1]>> \o FilterLong_AtLeast3(Tail(terms))
    ELSE FilterLong_AtLeast3(Tail(terms))

\* Array.prototype.filter with the predicate of line 88: term.length > 3.
RECURSIVE FilterLong(_)
FilterLong(terms) ==
    IF terms = <<>> THEN <<>>
    ELSE IF Len(terms[1]) > 3 THEN <<terms[1]>> \o FilterLong(Tail(terms))
    ELSE FilterLong(Tail(terms))

\* term.replace(/[.,?!;:()"']/g, ""), line 89.
RECURSIVE StripPunctuation(_)
StripPunctuation(s) ==
    IF s = <<>> THEN <<>>
    ELSE IF s[1] \in Punctuation THEN StripPunctuation(Tail(s))
    ELSE <<s[1]>> \o StripPunctuation(Tail(s))

(***************************************************************************)
(* The chunker: loadPDF, lines 70-80                                       *)
(***************************************************************************)

CHUNK_SIZE == 800

\* ChunkWords with the separating space left out of the length test of line 73.
RECURSIVE ChunkWords_NoSeparator(_, _, _, _)
ChunkWords_NoSeparator(words, i, cur, chunks) ==
    IF i > Len(words) THEN [currentChunk |-> cur, pdfChunks |-> chunks]
    ELSE LET word == words[i] IN
         IF Len(cur \o word) <= CHUNK_SIZE
         THEN ChunkWords_NoSeparator(words, i + 1,
                         cur \o (IF cur # <<>> THEN <<" ">> ELSE <<>>) \o word,
                         chunks)
         ELSE ChunkWords_NoSeparator(words, i + 1, word, Append(chunks, cur))

\* The for loop of lines 72-79 from word i on; cur is currentChunk and chunks
\* is pdfChunks.
RECURSIVE ChunkWords(_, _, _, _)
ChunkWords(words, i, cur, chunks) ==
    IF i > Len(words) THEN [currentChunk |-> cur, pdfChunks |-> chunks]
    ELSE LET word == words[i] IN
         IF Len(cur \o <<" ">> \o word) <= CHUNK_SIZE
         THEN ChunkWords(words, i + 1,
                         cur \o (IF cur # <<>> THEN <<" ">> ELSE <<>>) \o word,
                         chunks)
         ELSE ChunkWords(words, i + 1, word, Append(chunks, cur))

\* Lines 70-80: pdfChunks after the text has been chunked onto it.
ChunkText(text, chunks) ==
    LET r == ChunkWords(SplitWS(text), 1, <<>>, chunks)
    IN  IF r.currentChunk # <<>> THEN Append(r.pdfChunks, r.currentChunk)
        ELSE r.pdfChunks

(***************************************************************************)
(* The retriever: retrieveRelevantContent, lines 84-106                    *)
(***************************************************************************)

RECURSIVE MapStrip(_)
MapStrip(terms) ==
    IF terms = <<>> THEN <<>>
    ELSE <<StripPunctuation(terms[1])>> \o MapStrip(Tail(terms))

\* Lines 85-89.
QueryTerms(q) == MapStrip(FilterLong(SplitWS(toLowerCase(q))))

\* Whether t occurs in s at position i.
OccursAt(s, t, i) ==
    /\ i + Len(t) - 1 <= Len(s)
    /\ \A k \in 1..Len(t) : LowerChar(s[i + k - 1]) = LowerChar(t[k])

\* chunkLower.match(new RegExp(term, "gi")).length for a term without regular
\* expression metacharacters: the matches are found left to right and do not
\* overlap; the empty pattern matches once at every position, the end included.
RECURSIVE CountFrom(_, _, _)
CountFrom(s, t, i) ==
    IF t = <<>> THEN Len(s) + 1
    ELSE IF i + Len(t) - 1 > Len(s) THEN 0
    ELSE IF OccursAt(s, t, i) THEN 1 + CountFrom(s, t, i + Len(t))
    ELSE CountFrom(s, t, i + 1)

MatchCount(s, t) == CountFrom(s, t, 1)

\* Lines 93-98: the score of one chunk.
RECURSIVE SumMatches(_, _)
SumMatches(chunkLower, terms) ==
    IF terms = <<>> THEN 0
    ELSE MatchCount(chunkLower, terms[1]) + SumMatches(chunkLower, Tail(terms))

Score(chunk, terms) == SumMatches(toLowerCase(chunk), terms)

\* Lines 91-100.
ScoredChunks(chunks, terms) ==
    [i \in 1..Len(chunks) |-> [chunk |-> chunks[i], score |-> Score(chunks[i], terms)]]

\* Line 102.
RECURSIVE FilterPositive(_)
FilterPositive(items) ==
    IF items = <<>> THEN <<>>
    ELSE IF items[1].score > 0 THEN <<items[1]>> \o FilterPositive(Tail(items))
    ELSE FilterPositive(Tail(items))

\* InsertDesc with a sort that is not stable: an item goes before the items of
\* equal score.
RECURSIVE InsertDesc_Unstable(_, _)
InsertDesc_Unstable(sorted, item) ==
    IF sorted = <<>> THEN <<item>>
    ELSE IF sorted[1].score > item.score
         THEN <<sorted[1]>> \o InsertDesc_Unstable(Tail(sorted), item)
    ELSE <<item>> \o sorted

\* An item put into a sequence sorted by descending score, behind the items
\* that do not score less: the comparator of line 103 with a stable sort.
RECURSIVE InsertDesc(_, _)
InsertDesc(sorted, item) ==
    IF sorted = <<>> THEN <<item>>
    ELSE IF sorted[1].score >= item.score
         THEN <<sorted[1]>> \o InsertDesc(Tail(sorted), item)
    ELSE <<item>> \o sorted

\* Line 103: Array.prototype.sort with (a, b) => b.score - a.score (stable).
RECURSIVE SortFrom(_, _, _)
SortFrom(items, i, sorted) ==
    IF i > Len(items) THEN sorted
    ELSE SortFrom(items, i + 1, InsertDesc(sorted, items[i]))

SortByScoreDesc(items) == SortFrom(items, 1, <<>>)

\* Line 104: slice(0, 3).
TOP_K == 3

SliceTop(items) == SubSeq(items, 1, IF Len(items) < TOP_K THEN Len(items) ELSE TOP_K)

\* Lines 84-106.
retrieveRelevantContent(q, chunks) ==
    LET queryTerms == QueryTerms(q) IN
    IF Len(queryTerms) = 0 THEN <<>>
    ELSE LET top == SliceTop(SortByScoreDesc(FilterPositive(ScoredChunks(chunks, queryTerms))))
         IN  [i \in 1..Len(top) |-> top[i].chunk]

(***************************************************************************)
(* The POST /chat handler, lines 109-166, and the state it works on        *)
(***************************************************************************)

\* Bounds of the model: the handlers that may be in flight together, the
\* requests the server receives when it handles them one after another, and
\* the requests it receives when it handles them concurrently.
MaxProcs == 2
MaxRequests == 3
MaxBurst == 2

Procs == 1..MaxProcs

\* null, and the absent file: one-symbol sequences no text equals.
Null == <<"<null>">>
NoFile == <<"<no file>">>
\* A field the request body does not have.
Undefined == "undefined"

\* The texts the model's requests and documents are made of.
DocHandbook == <<"l", "e", "a", "v", "e", " ", "p", "a", "y">>
MsgLeave == <<"L", "e", "a", "v", "e", "?">>
MsgHi == <<"h", "i">>
ReplyOk == <<"o", "k">>

\* What pdf-parse extracts from the file at pdfPath, or NoFile.
PdfFiles == {NoFile, <<>>, DocHandbook}
UserMessages == {MsgLeave, MsgHi}
Replies == {ReplyOk}
\* req.body.sessionId and req.body.useRAG as the client may send them.
BodySessionIds == {"s1", Undefined}
BodyUseRAG == {"true", "false", Undefined}

VARIABLES
    pdfFile,          \* the handbook file: its extracted text, or NoFile
    pdfText,          \* line 56
    pdfChunks,        \* line 57
    pdfReads,         \* how often lines 67-68 have read and parsed the file
    sessionMemories,  \* line 39: session id -> the turns of its chat history
    pc,               \* per handler: the await it is suspended at
    req,              \* per handler: the locals of the running request
    res,              \* per handler: the response sent to its latest request
    started,          \* the number of requests received
    completed,        \* the successful requests, in the order they were answered
    fn,               \* the function a function-level specification applies
    query,            \* the argument of retrieveRelevantContent
    retrieved,        \* its result, and the system prompt built from it
    widget,           \* the ChatInterface component of chat.js
    climate           \* the POST /chat handler of climate/backend/server.js

vars == <<pdfFile, pdfText, pdfChunks, pdfReads, sessionMemories, pc, req, res,
          started, completed, fn, query, retrieved, widget, climate>>

\* What the handlers of packages/webapi/server.js leave alone.
fnVars == <<fn, query, retrieved, widget, climate>>

\* if (pdfText), line 61: null and the empty string are falsy.
Truthy(s) == s # Null /\ s # <<>>

\* The history of a session; a session never referenced has none.
History(sid) == IF sid \in DOMAIN sessionMemories THEN sessionMemories[sid] ELSE <<>>

\* getSessionMemory, lines 42-53.
getSessionMemory(sid) ==
    IF sid \in DOMAIN sessionMemories THEN sessionMemories
    ELSE [s \in DOMAIN sessionMemories \cup {sid} |->
            IF s = sid THEN <<>> ELSE sessionMemories[s]]

UserTurn(content) == [role |-> "user", content |-> content]
AssistantTurn(content) == [role |-> "assistant", content |-> content]

\* saveContext storing the assistant turn alone.
saveContext_OnlyOutput(sid, input, output) ==
    [sessionMemories EXCEPT ![sid] = @ \o <<AssistantTurn(output)>>]

\* saveContext on one memory shared by all sessions.
saveContext_EverySession(sid, input, output) ==
    [s \in DOMAIN sessionMemories |->
        sessionMemories[s] \o <<UserTurn(input), AssistantTurn(output)>>]

\* memory.saveContext({input}, {output}), lines 152-155: the user turn and the
\* assistant turn are appended to the session's history, in this order.
saveContext(sid, input, output) ==
    [sessionMemories EXCEPT ![sid] = @ \o <<UserTurn(input), AssistantTurn(output)>>]

\* SystemMessage choosing by the sources before useRAG is looked at.
SystemMessage_SourcesFirst(useRAG, sources) ==
    [role |-> "system",
     content |->
        IF Len(sources) > 0
        THEN <<"<ONLY USE THE EXCERPTS>">> \o Join(sources, <<"\n", "\n">>)
                 \o <<"<END OF EXCERPTS>">>
        ELSE <<"<HANDBOOK HAS NO RELEVANT INFORMATION>">>]

\* Lines 125-139.  The literal texts are the symbols in angle brackets.
SystemMessage(useRAG, sources) ==
    [role |-> "system",
     content |->
        IF useRAG
        THEN IF Len(sources) > 0
             THEN <<"<ONLY USE THE EXCERPTS>">> \o Join(sources, <<"\n", "\n">>)
                      \o <<"<END OF EXCERPTS>">>
             ELSE <<"<HANDBOOK HAS NO RELEVANT INFORMATION>">>
        ELSE <<"<GENERIC ASSISTANT>">>]

\* ComposeMessages without the spread of line 144.
ComposeMessages_NoHistory(systemMessage, chatHistory, userMessage) ==
    <<systemMessage, UserTurn(userMessage)>>

\* Lines 142-146.
ComposeMessages(systemMessage, chatHistory, userMessage) ==
    <<systemMessage>> \o chatHistory \o <<UserTurn(userMessage)>>

IdleReq == [state |-> "idle"]
\* The components a specification of the backend does not run.
NoWidget == [state |-> "none"]
NoClimate == [state |-> "none"]
NoResponse == [status |-> 0]

\* The error envelope of lines 160-164.
ErrorResponse(errMessage) ==
    [status |-> 500, error |-> "Model call failed", message |-> errMessage,
     reply |-> "Sorry, I encountered an error. Please try again."]

Init ==
    /\ pdfFile \in PdfFiles
    /\ pdfText = Null
    /\ pdfChunks = <<>>
    /\ pdfReads = 0
    /\ sessionMemories = << >>
    /\ pc = [p \in Procs |-> "idle"]
    /\ req = [p \in Procs |-> IdleReq]
    /\ res = [p \in Procs |-> NoResponse]
    /\ started = 0
    /\ completed = <<>>
    /\ fn = "none"
    /\ query = <<>>
    /\ retrieved = [sources |-> <<>>, systemMessage |-> <<>>]
    /\ widget = NoWidget
    /\ climate = NoClimate

\* Lines 111-116: a request arrives; the session's memory is fetched or created
\* and the handler awaits loadMemoryVariables.  The request runs as the first
\* free handler (which one is no matter to the code), with no response yet.
Receive(p, message, bodyUseRAG, bodySessionId) ==
    /\ pc[p] = "idle"
    /\ \A q \in Procs : q < p => pc[q] # "idle"
    /\ started < MaxRequests
    /\ LET sessionId == IF bodySessionId = Undefined THEN "default_session"
                        ELSE bodySessionId
           useRAG == IF bodyUseRAG = Undefined THEN TRUE ELSE bodyUseRAG = "true"
       IN  /\ req' = [req EXCEPT ![p] =
                        [state |-> "running",
                         body |-> [useRAG |-> bodyUseRAG, sessionId |-> bodySessionId],
                         userMessage |-> message,
                         useRAG |-> useRAG, sessionId |-> sessionId,
                         historyAtStart |-> History(sessionId),
                         memoryVars |-> <<>>, sources |-> <<>>,
                         messages |-> <<>>]]
           /\ sessionMemories' = getSessionMemory(sessionId)
    /\ res' = [res EXCEPT ![p] = NoResponse]
    /\ pc' = [pc EXCEPT ![p] = "loadMemoryVariables"]
    /\ started' = started + 1
    /\ UNCHANGED <<pdfFile, pdfText, pdfChunks, pdfReads, completed, fnVars>>

\* Lines 141-149: the message list is built and handed to chatModel.invoke.
\* chat_history is the history as loadMemoryVariables returned it; the memory
\* may have returned its own array, which then shows the turns stored since.
Invoke(p, memoryVars, sources) ==
    /\ \E chatHistory \in {memoryVars, History(req[p].sessionId)} :
          req' = [req EXCEPT ![p].memoryVars = memoryVars,
                             ![p].sources = sources,
                             ![p].messages =
                                 ComposeMessages(SystemMessage(req[p].useRAG, sources),
                                                 chatHistory, req[p].userMessage)]
    /\ pc' = [pc EXCEPT ![p] = "invoke"]

\* Line 116 resumes with useRAG false: lines 118-149.
ResumeWithoutRAG(p) ==
    /\ pc[p] = "loadMemoryVariables"
    /\ ~req[p].useRAG
    /\ Invoke(p, History(req[p].sessionId), <<>>)
    /\ UNCHANGED <<pdfFile, pdfText, pdfChunks, pdfReads, sessionMemories, res,
                   started, completed, fnVars>>

\* Line 116 resumes with useRAG true and loadPDF returns the cached text, line 61.
ResumeCacheHit(p) ==
    /\ pc[p] = "loadMemoryVariables"
    /\ req[p].useRAG
    /\ Truthy(pdfText)
    /\ req' = [req EXCEPT ![p].memoryVars = History(req[p].sessionId)]
    /\ pc' = [pc EXCEPT ![p] = "loadPDF"]
    /\ UNCHANGED <<pdfFile, pdfText, pdfChunks, pdfReads, sessionMemories, res,
                   started, completed, fnVars>>

\* ResumeNoFile with the missing file taken as a handbook without excerpts.
ResumeNoFile_CallsModel(p) ==
    /\ pc[p] = "loadMemoryVariables"
    /\ req[p].useRAG
    /\ ~Truthy(pdfText)
    /\ pdfFile = NoFile
    /\ Invoke(p, History(req[p].sessionId), <<>>)
    /\ UNCHANGED <<pdfFile, pdfText, pdfChunks, pdfReads, sessionMemories, res,
                   started, completed, fnVars>>

\* Line 116 resumes with useRAG true and loadPDF throws, lines 62-66.
ResumeNoFile(p) ==
    /\ pc[p] = "loadMemoryVariables"
    /\ req[p].useRAG
    /\ ~Truthy(pdfText)
    /\ pdfFile = NoFile
    /\ req' = [req EXCEPT ![p].memoryVars = History(req[p].sessionId)]
    /\ pc' = [pc EXCEPT ![p] = "loadPDFThrew"]
    /\ UNCHANGED <<pdfFile, pdfText, pdfChunks, pdfReads, sessionMemories, res,
                   started, completed, fnVars>>

\* Line 116 resumes with useRAG true and loadPDF reads the file and awaits
\* pdfParse, lines 67-68.
ResumeReadFile(p) ==
    /\ pc[p] = "loadMemoryVariables"
    /\ req[p].useRAG
    /\ ~Truthy(pdfText)
    /\ pdfFile # NoFile
    /\ req' = [req EXCEPT ![p].memoryVars = History(req[p].sessionId)]
    /\ pdfReads' = pdfReads + 1
    /\ pc' = [pc EXCEPT ![p] = "pdfParse"]
    /\ UNCHANGED <<pdfFile, pdfText, pdfChunks, sessionMemories, res,
                   started, completed, fnVars>>

\* pdfParse resolves: lines 69-81.
ParseDone(p) ==
    /\ pc[p] = "pdfParse"
    /\ pdfText' = pdfFile
    /\ pdfChunks' = ChunkText(pdfFile, pdfChunks)
    /\ pc' = [pc EXCEPT ![p] = "loadPDF"]
    /\ UNCHANGED <<pdfFile, pdfReads, sessionMemories, req, res, started,
                   completed, fnVars>>

\* Line 120 resumes: lines 121-149.
Retrieve(p) ==
    /\ pc[p] = "loadPDF"
    /\ Invoke(p, req[p].memoryVars,
              retrieveRelevantContent(req[p].userMessage, pdfChunks))
    /\ UNCHANGED <<pdfFile, pdfText, pdfChunks, pdfReads, sessionMemories, res,
                   started, completed, fnVars>>

\* Line 120 throws what loadPDF threw: the catch of lines 158-165.
LoadFailed(p) ==
    /\ pc[p] = "loadPDFThrew"
    /\ res' = [res EXCEPT ![p] = ErrorResponse("<PDF NOT FOUND>")]
    /\ req' = [req EXCEPT ![p] = IdleReq]
    /\ pc' = [pc EXCEPT ![p] = "idle"]
    /\ UNCHANGED <<pdfFile, pdfText, pdfChunks, pdfReads, sessionMemories,
                   started, completed, fnVars>>

\* chatModel.invoke resolves, line 149, and saveContext is called, lines 152-155.
InvokeResolved(p, content) ==
    /\ pc[p] = "invoke"
    /\ sessionMemories' = saveContext(req[p].sessionId, req[p].userMessage, content)
    /\ req' = [req EXCEPT ![p] =
                 [state |-> "saving", body |-> req[p].body,
                  userMessage |-> req[p].userMessage,
                  useRAG |-> req[p].useRAG, sessionId |-> req[p].sessionId,
                  historyAtStart |-> req[p].historyAtStart,
                  memoryVars |-> req[p].memoryVars, sources |-> req[p].sources,
                  messages |-> req[p].messages, content |-> content,
                  savedAt |-> Len(History(req[p].sessionId))]]
    /\ pc' = [pc EXCEPT ![p] = "saveContext"]
    /\ UNCHANGED <<pdfFile, pdfText, pdfChunks, pdfReads, res, started,
                   completed, fnVars>>

\* InvokeRejected with the user turn stored although the model call failed.
InvokeRejected_KeepsUserTurn(p) ==
    /\ pc[p] = "invoke"
    /\ sessionMemories' = [sessionMemories EXCEPT ![req[p].sessionId] =
                              @ \o <<UserTurn(req[p].userMessage)>>]
    /\ res' = [res EXCEPT ![p] = ErrorResponse("<MODEL ERROR>")]
    /\ req' = [req EXCEPT ![p] = IdleReq]
    /\ pc' = [pc EXCEPT ![p] = "idle"]
    /\ UNCHANGED <<pdfFile, pdfText, pdfChunks, pdfReads, started, completed, fnVars>>

\* chatModel.invoke rejects, line 149: the catch of lines 158-165.
InvokeRejected(p) ==
    /\ pc[p] = "invoke"
    /\ res' = [res EXCEPT ![p] = ErrorResponse("<MODEL ERROR>")]
    /\ req' = [req EXCEPT ![p] = IdleReq]
    /\ pc' = [pc EXCEPT ![p] = "idle"]
    /\ UNCHANGED <<pdfFile, pdfText, pdfChunks, pdfReads, sessionMemories,
                   started, completed, fnVars>>

\* Line 152 resumes: the response of line 157.
Respond(p) ==
    /\ pc[p] = "saveContext"
    /\ res' = [res EXCEPT ![p] =
                 [status |-> 200, reply |-> req[p].content, sources |-> req[p].sources]]
    /\ completed' = Append(completed,
                           [sessionId |-> req[p].sessionId,
                            userMessage |-> req[p].userMessage,
                            reply |-> req[p].content])
    /\ req' = [req EXCEPT ![p] = IdleReq]
    /\ pc' = [pc EXCEPT ![p] = "idle"]
    /\ UNCHANGED <<pdfFile, pdfText, pdfChunks, pdfReads, sessionMemories,
                   started, fnVars>>

ReceiveAny ==
    \E p \in Procs, message \in UserMessages, bodyUseRAG \in BodyUseRAG,
       bodySessionId \in BodySessionIds :
        Receive(p, message, bodyUseRAG, bodySessionId)

Step ==
    \E p \in Procs :
        \/ ResumeWithoutRAG(p)
        \/ ResumeCacheHit(p)
        \/ ResumeNoFile(p)
        \/ ResumeReadFile(p)
        \/ ParseDone(p)
        \/ Retrieve(p)
        \/ LoadFailed(p)
        \/ \E content \in Replies : InvokeResolved(p, content)
        \/ InvokeRejected(p)
        \/ Respond(p)

\* The server handling its requests concurrently: every await is a point where
\* another handler may run.
Next == (started < MaxBurst /\ ReceiveAny) \/ Step

Spec == Init /\ [][Next]_vars

\* The server handling its requests one after another.
AllIdle == \A p \in Procs : pc[p] = "idle"

NextSeq == (AllIdle /\ ReceiveAny) \/ Step

SpecSeq == Init /\ [][NextSeq]_vars

(***************************************************************************)
(* The chunker and the retriever on their own                              *)
(***************************************************************************)

\* Bounds of the texts the chunker is applied to and of the chunk sequences
\* the retriever is applied to.
MaxTokens == 3
MaxChunks == 4

\* A token of n characters c.
Rep(c, n) == [i \in 1..n |-> c]

\* Tokens around CHUNK_SIZE and around half of it.
TokenSet ==
    {Rep("a", 1), Rep("b", 399), Rep("c", 400), Rep("d", 799), Rep("e", 800),
     Rep("f", 801)}

TokenSeqs == UNION {[1..n -> TokenSet] : n \in 0..MaxTokens}

\* The texts: up to MaxTokens tokens, a separator between them, and white space
\* or none before the first and after the last.
ChunkTexts ==
    {lead \o Join(toks, sep) \o trail :
        toks \in TokenSeqs, sep \in {<<" ">>, <<"\n", "\n">>},
        lead \in {<<>>, <<"\n">>}, trail \in {<<>>, <<"\n">>}}

InitChunk ==
    /\ pdfFile \in ChunkTexts
    /\ pdfText = Null
    /\ pdfChunks = <<>>
    /\ pdfReads = 0
    /\ sessionMemories = << >>
    /\ pc = [p \in Procs |-> "idle"]
    /\ req = [p \in Procs |-> IdleReq]
    /\ res = [p \in Procs |-> NoResponse]
    /\ started = 0
    /\ completed = <<>>
    /\ fn = "chunk"
    /\ query = <<>>
    /\ retrieved = [sources |-> <<>>, systemMessage |-> <<>>]
    /\ widget = NoWidget
    /\ climate = NoClimate

\* Lines 69-81 applied to the text of the file.
ChunkerRun ==
    /\ fn = "chunk"
    /\ pdfText' = pdfFile
    /\ pdfChunks' = ChunkText(pdfFile, pdfChunks)
    /\ fn' = "chunked"
    /\ UNCHANGED <<pdfFile, pdfReads, sessionMemories, pc, req, res, started,
                   completed, query, retrieved, widget, climate>>

SpecChunk == InitChunk /\ [][ChunkerRun]_vars

\* The chunks and the queries the retriever is applied to.
ChunkPaid == <<"p", "a", "i", "d">>
ChunkPaidPaid == <<"p", "a", "i", "d", "p", "a", "i", "d">>
ChunkSick == <<"s", "i", "c", "k">>
ChunkPaidSick == <<"P", "A", "I", "D", " ", "s", "i", "c", "k">>
ChunkDay == <<"d", "a", "y">>

ChunkPool == {ChunkPaid, ChunkPaidPaid, ChunkSick, ChunkPaidSick, ChunkDay, <<>>}

ChunkSeqs == UNION {[1..n -> ChunkPool] : n \in 0..MaxChunks}

QueryPaid == <<"p", "a", "i", "d">>
QuerySick == <<"S", "i", "c", "k", "!">>
QueryPaidSick == <<"P", "a", "i", "d", " ", "s", "i", "c", "k", "?">>
QueryPaidTwice == <<"p", "a", "i", "d", ",", "\n", "p", "a", "i", "d">>
QueryADay == <<"a", " ", "d", "a", "y">>
QueryMarks == <<"?", "?", "?", "?">>

Queries == {QueryPaid, QuerySick, QueryPaidSick, QueryPaidTwice, QueryADay,
            QueryMarks, <<>>}

InitRetrieve ==
    /\ pdfFile = NoFile
    /\ pdfText = Null
    /\ pdfChunks \in ChunkSeqs
    /\ pdfReads = 0
    /\ sessionMemories = << >>
    /\ pc = [p \in Procs |-> "idle"]
    /\ req = [p \in Procs |-> IdleReq]
    /\ res = [p \in Procs |-> NoResponse]
    /\ started = 0
    /\ completed = <<>>
    /\ fn = "retrieve"
    /\ query \in Queries
    /\ retrieved = [sources |-> <<>>, systemMessage |-> <<>>]
    /\ widget = NoWidget
    /\ climate = NoClimate

\* Lines 121-139 with useRAG true, applied to the query and the chunks.
RetrieverRun ==
    /\ fn = "retrieve"
    /\ LET sources == retrieveRelevantContent(query, pdfChunks)
       IN  retrieved' = [sources |-> sources,
                         systemMessage |-> SystemMessage(TRUE, sources)]
    /\ fn' = "retrieved"
    /\ UNCHANGED <<pdfFile, pdfText, pdfChunks, pdfReads, sessionMemories, pc,
                   req, res, started, completed, query, widget, climate>>

SpecRetrieve == InitRetrieve /\ [][RetrieverRun]_vars

(***************************************************************************)
(* Properties                                                              *)
(***************************************************************************)

SessionIds == {"s1", "default_session", "s2"}

\* The turns of the successful requests for a session, in the order the
\* requests were answered.
RECURSIVE TurnsOf(_, _)
TurnsOf(log, sid) ==
    IF log = <<>> THEN <<>>
    ELSE (IF log[1].sessionId = sid
          THEN <<UserTurn(log[1].userMessage), AssistantTurn(log[1].reply)>>
          ELSE <<>>) \o TurnsOf(Tail(log), sid)

\* C1: when the requests are handled one after another, the history of every
\* session is, once the handlers are idle, the user and assistant turns of the
\* session's successful requests in the order they were answered (so 2N turns
\* after N of them), and a session never referenced has an empty history.
C1_HistoryIsCompletedTurns ==
    AllIdle => \A sid \in SessionIds : History(sid) = TurnsOf(completed, sid)

\* C1 witness: one session has been answered twice, with different user
\* texts, next to a request that failed or went to another session.
C1_Witness ==
    /\ AllIdle
    /\ started = 3
    /\ \E sid \in SessionIds :
          /\ Len(History(sid)) = 4
          /\ History(sid)[1] # History(sid)[3]

\* C2: the step in which the model call fails ends the request with the error
\* response and leaves the session's history as it was when the request began.
C2_FailureKeepsHistory ==
    [][\A p \in Procs :
          (pc[p] = "invoke" /\ pc'[p] = "idle")
              => /\ res'[p].status = 500
                 /\ res'[p].error = "Model call failed"
                 /\ sessionMemories'[req[p].sessionId] = req[p].historyAtStart]_vars

\* C2 witness: handler 1 took three requests for the one session "s1"; the
\* first two succeeded and the model call of the third failed.
C2_Witness ==
    /\ AllIdle
    /\ started = 3
    /\ Len(completed) = 2
    /\ res[2] = NoResponse
    /\ res[1].status = 500
    /\ res[1].message = "<MODEL ERROR>"
    /\ DOMAIN sessionMemories = {"s1"}
    /\ Len(sessionMemories["s1"]) = 4

\* C3: when the requests are handled one after another, the message list handed
\* to the model is one system instruction, then the stored history of the
\* session, which is the turns of all its earlier successful requests, then the
\* new user turn.
C3_MessageList ==
    \A p \in Procs :
        pc[p] = "invoke" =>
            LET m == req[p].messages IN
            /\ Len(m) >= 2
            /\ m[1] = SystemMessage(req[p].useRAG, req[p].sources)
            /\ \A i \in 2..Len(m) : m[i].role # "system"
            /\ SubSeq(m, 2, Len(m) - 1) = History(req[p].sessionId)
            /\ SubSeq(m, 2, Len(m) - 1) = TurnsOf(completed, req[p].sessionId)
            /\ m[Len(m)] = UserTurn(req[p].userMessage)

\* C3 witness: the third request of a session is at the model call with the
\* four turns of the two earlier ones in its message list.
C3_Witness ==
    \E p \in Procs :
        /\ pc[p] = "invoke"
        /\ Len(req[p].messages) = 6
        /\ req[p].messages[2] # req[p].messages[4]

\* C4: under concurrent handling, every turn stored before a request's own
\* user turn was in the message list the request sent to the model, and the
\* request's user turn is directly followed by its own assistant turn.
C4_PerSessionSerialized ==
    \A p \in Procs :
        pc[p] = "saveContext" =>
            LET h == sessionMemories[req[p].sessionId]
                k == req[p].savedAt
                m == req[p].messages
            IN  /\ SubSeq(h, 1, k) = SubSeq(m, 2, Len(m) - 1)
                /\ h[k + 1] = UserTurn(req[p].userMessage)
                /\ h[k + 2] = AssistantTurn(req[p].content)

\* C5: once a loadPDF call has succeeded (pdfText is assigned), no later call
\* reads or parses the file again, and the cached chunks stay as they are.
C5_LoadedAtMostOnce ==
    [][pdfText # Null => (pdfReads' = pdfReads /\ pdfChunks' = pdfChunks)]_vars

\* C6: once every load that was started has completed, the cached chunks are
\* those of a single load of the document, and retrieval returns what it
\* returns after a single load.
C6_ConcurrentLoadsHarmless ==
    (pdfText # Null /\ \A p \in Procs : pc[p] # "pdfParse")
        => /\ pdfChunks = ChunkText(pdfFile, <<>>)
           /\ \A q \in UserMessages :
                 retrieveRelevantContent(q, pdfChunks)
                     = retrieveRelevantContent(q, ChunkText(pdfFile, <<>>))

\* Whether chunk is one white-space-delimited token of text.
IsTokenOf(chunk, text) ==
    /\ chunk # <<>>
    /\ \A i \in 1..Len(chunk) : chunk[i] \notin WhiteSpace
    /\ \E i \in 1..Len(text) :
          /\ i + Len(chunk) - 1 <= Len(text)
          /\ SubSeq(text, i, i + Len(chunk) - 1) = chunk
          /\ (i = 1 \/ text[i - 1] \in WhiteSpace)
          /\ (i + Len(chunk) - 1 = Len(text) \/ text[i + Len(chunk)] \in WhiteSpace)

\* C7: every chunk is at most CHUNK_SIZE long, except a chunk that is one
\* token of the text that is itself longer.
C7_ChunkLength ==
    fn = "chunked" =>
        \A i \in 1..Len(pdfChunks) :
            \/ Len(pdfChunks[i]) <= CHUNK_SIZE
            \/ IsTokenOf(pdfChunks[i], pdfFile)

\* C7 witness: a text chunked into an oversized token and a chunk of two
\* tokens that fills CHUNK_SIZE exactly.
C7_Witness ==
    /\ fn = "chunked"
    /\ \E i \in 1..Len(pdfChunks) : Len(pdfChunks[i]) > CHUNK_SIZE
    /\ \E i \in 1..Len(pdfChunks) :
          /\ Len(pdfChunks[i]) = CHUNK_SIZE
          /\ \E k \in 1..Len(pdfChunks[i]) : pdfChunks[i][k] = " "

\* The tokens of a text: the non-empty pieces between its white space.
Tokens(text) == SelectSeq(SplitWS(text), LAMBDA w : w # <<>>)

\* C8: the chunks joined with single spaces are the tokens of the text joined
\* with single spaces.
C8_ChunksReproduceText ==
    fn = "chunked" => Join(pdfChunks, <<" ">>) = Join(Tokens(pdfFile), <<" ">>)

\* The scores of the chunks for the query, as lines 91-100 compute them.
ScoreOf(i) == Score(pdfChunks[i], QueryTerms(query))

\* C9: retrieval returns at most 3 chunks, each with a positive score, in
\* descending score order with equal scores in chunk order, and every chunk
\* left out scores nothing or comes behind all 3 returned ones in that order.
C9_TopThreeStable ==
    fn = "retrieved" =>
        LET r == retrieved.sources
            n == Len(r)
            Before(i, j) == ScoreOf(i) > ScoreOf(j) \/ (ScoreOf(i) = ScoreOf(j) /\ i < j)
        IN  /\ n <= 3
            /\ \E idx \in [1..n -> 1..Len(pdfChunks)] :
                  /\ \A i \in 1..n : r[i] = pdfChunks[idx[i]] /\ ScoreOf(idx[i]) > 0
                  /\ \A i, j \in 1..n : i < j => Before(idx[i], idx[j])
                  /\ \A k \in 1..Len(pdfChunks) :
                        (ScoreOf(k) > 0 /\ \A i \in 1..n : idx[i] # k)
                            => (n = 3 /\ \A i \in 1..n : Before(idx[i], k))

\* C9 witness: three chunks are returned, two of them different chunks of
\* equal score, and a fourth chunk with a positive score is left out.
C9_Witness ==
    /\ fn = "retrieved"
    /\ Len(retrieved.sources) = 3
    /\ \E i \in 1..2 :
          /\ retrieved.sources[i] # retrieved.sources[i + 1]
          /\ Score(retrieved.sources[i], QueryTerms(query))
                = Score(retrieved.sources[i + 1], QueryTerms(query))
    /\ Cardinality({k \in 1..Len(pdfChunks) : ScoreOf(k) > 0}) = 4

\* Whether every white-space-split token of q is at most 3 long.
AllShort(q) == \A k \in 1..Len(SplitWS(q)) : Len(SplitWS(q)[k]) <= 3

\* C10: for a query whose tokens are all at most 3 long, retrieval returns the
\* empty sequence and the request gets the 'no relevant information' prompt.
C10_ShortQueryRetrievesNothing ==
    (fn = "retrieved" /\ AllShort(query))
        => /\ retrieved.sources = <<>>
           /\ retrieved.systemMessage.content = <<"<HANDBOOK HAS NO RELEVANT INFORMATION>">>

\* C10 witness: a query of short tokens, one of which is a chunk.
C10_Witness ==
    /\ fn = "retrieved"
    /\ AllShort(query)
    /\ query # <<>>
    /\ \E i \in 1..Len(pdfChunks), k \in 1..Len(SplitWS(query)) :
          pdfChunks[i] = SplitWS(query)[k]
    /\ retrieved.sources = <<>>

\* C11: with the handbook file absent, a request with useRAG true goes from
\* the failed load straight to the error response: the model is not called, the
\* file is not read, nothing is cached, the session's history is as it was when
\* the request began, and the handler is free for the next request.
C11_MissingHandbook ==
    [][\A p \in Procs :
          /\ (pc[p] = "loadMemoryVariables" /\ req[p].useRAG /\ pdfFile = NoFile)
                => pc'[p] \in {"loadMemoryVariables", "loadPDFThrew"}
          /\ pc[p] = "loadPDFThrew"
                => /\ pc'[p] \in {"loadPDFThrew", "idle"}
                   /\ pc'[p] = "idle"
                         => /\ res'[p].status = 500
                            /\ res'[p].message = "<PDF NOT FOUND>"
                            /\ sessionMemories'[req[p].sessionId] = req[p].historyAtStart
                            /\ pdfText' = Null
                            /\ pdfReads' = 0
                            /\ completed' = completed]_vars

\* C11 witness: a request of session "s1" without RAG was served, and the next
\* one of "s1", with RAG, got the error response for the missing file.
C11_Witness ==
    /\ AllIdle
    /\ pdfFile = NoFile
    /\ started = 2
    /\ Len(completed) = 1
    /\ DOMAIN sessionMemories = {"s1"}
    /\ Len(sessionMemories["s1"]) = 2
    /\ res[1].status = 500
    /\ res[1].message = "<PDF NOT FOUND>"

\* C12: the system instruction handed to the model is fixed by useRAG and the
\* sources: the excerpts prompt around the sources joined in order, the 'no
\* relevant information' prompt, or the generic prompt.  Without RAG the
\* document is not loaded, nothing is retrieved and the response's sources are
\* empty.  A missing useRAG field counts as true.
C12_SystemInstruction ==
    [][\A p \in Procs :
          /\ (pc'[p] = "invoke" /\ pc[p] # "invoke")
                => LET r == req'[p]
                       content == r.messages[1].content
                   IN  /\ r.messages[1].role = "system"
                       /\ r.useRAG = (r.body.useRAG # "false")
                       /\ (r.useRAG /\ r.sources # <<>>)
                             => content = <<"<ONLY USE THE EXCERPTS>">>
                                   \o Join(r.sources, <<"\n", "\n">>)
                                   \o <<"<END OF EXCERPTS>">>
                       /\ (r.useRAG /\ r.sources = <<>>)
                             => content = <<"<HANDBOOK HAS NO RELEVANT INFORMATION>">>
                       /\ ~r.useRAG
                             => /\ content = <<"<GENERIC ASSISTANT>">>
                                /\ r.sources = <<>>
                                /\ pc[p] = "loadMemoryVariables"
                                /\ UNCHANGED <<pdfText, pdfChunks, pdfReads>>
          /\ (pc[p] = "saveContext" /\ pc'[p] = "idle")
                => /\ res'[p].sources = req[p].sources
                   /\ ~req[p].useRAG => res'[p].sources = <<>>]_vars

\* C12 witness: a request without a useRAG field is at the model call with an
\* excerpt in its system instruction.
C12_Witness ==
    \E p \in Procs :
        /\ pc[p] = "invoke"
        /\ req[p].body.useRAG = Undefined
        /\ req[p].sources # <<>>
        /\ Len(req[p].messages[1].content) > 2

\* Whether s is a prefix of t.
IsPrefix(s, t) == Len(s) <= Len(t) /\ SubSeq(t, 1, Len(s)) = s

\* C17: a request changes the history of its own session only, builds its
\* message list from turns of its own session only, and a request without a
\* sessionId belongs to the session "default_session".
C17_SessionsIsolated ==
    [][/\ \A sid \in SessionIds :
             History(sid)' # History(sid)
                => \E p \in Procs :
                      /\ req[p].state = "running"
                      /\ req[p].sessionId = sid
                      /\ pc[p] = "invoke"
                      /\ pc'[p] = "saveContext"
       /\ \A p \in Procs :
             (pc'[p] = "invoke" /\ pc[p] # "invoke")
                => IsPrefix(SubSeq(req'[p].messages, 2, Len(req'[p].messages) - 1),
                            History(req[p].sessionId))
       /\ \A p \in Procs :
             (pc[p] = "idle" /\ pc'[p] # "idle")
                => /\ req'[p].sessionId =
                         (IF req'[p].body.sessionId = Undefined THEN "default_session"
                          ELSE req'[p].body.sessionId)
                   /\ DOMAIN sessionMemories'
                         = DOMAIN sessionMemories \cup {req'[p].sessionId}]_vars

\* C17 witness: a request without a sessionId has stored its turns while the
\* session "s1" holds other turns.
C17_Witness ==
    \E p \in Procs :
        /\ pc[p] = "saveContext"
        /\ req[p].body.sessionId = Undefined
        /\ History("s1") # <<>>
        /\ History("default_session") # <<>>
        /\ History("s1") # History("default_session")

\* C15: every term the retriever scores with has more than three characters
\* after the punctuation is stripped, so no empty term is used and a query of
\* punctuation marks alone retrieves nothing.
C15_TermsLongAfterStrip ==
    fn = "retrieved"
        => /\ \A i \in DOMAIN QueryTerms(query) : Len(QueryTerms(query)[i]) > 3
           /\ query = QueryMarks => retrieved.sources = <<>>

\* C16: every chunk the chunker stores is non-empty.
C16_NoEmptyChunk ==
    fn = "chunked" => \A i \in DOMAIN pdfChunks : pdfChunks[i] # <<>>

-----------------------------------------------------------------------------
\* The stateless endpoint: app.post('/chat') of climate/backend/server.js.

\* Bounds: the longest upstream reply, and the requests made one after another.
MaxContent == 101
MaxClimate == 2

\* The 50 of /[\s\S]{1,50}/g, line 132.
ChunkChars == 50

Min(a, b) == IF a < b THEN a ELSE b

\* A reply of n characters: letters with a line feed at every seventh place.
Text(n) ==
    [i \in 1..n |-> IF i % 7 = 0 THEN "\n" ELSE <<"a", "b", "c", "d", "e">>[(i % 5) + 1]]

\* data.choices?.[0]?.message?.content of the upstream body; Null when absent.
UpstreamContents ==
    {Null} \cup {Text(n) : n \in {0, 1, ChunkChars, ChunkChars + 1, 2 * ChunkChars, MaxContent}}

\* The matches of /.{1,50}/g from position i on: the dot matches no line feed.
RECURSIVE MatchFrom_DotPattern(_, _, _)
MatchFrom_DotPattern(s, i, acc) ==
    IF i > Len(s) THEN acc
    ELSE IF s[i] = "\n" THEN MatchFrom_DotPattern(s, i + 1, acc)
    ELSE LET last == Min(i + ChunkChars - 1, Len(s))
             stops == {k \in i..last : s[k] = "\n"}
             j == IF stops = {} THEN last
                  ELSE (CHOOSE k \in stops : \A m \in stops : k <= m) - 1
         IN  MatchFrom_DotPattern(s, j + 1, Append(acc, SubSeq(s, i, j)))

\* The matches of /[\s\S]{1,50}/g from position i on, line 132: greedy, so each
\* match takes 50 characters or what is left.
RECURSIVE MatchFrom(_, _, _)
MatchFrom(s, i, acc) ==
    IF i > Len(s) THEN acc
    ELSE LET j == Min(i + ChunkChars - 1, Len(s))
         IN  MatchFrom(s, j + 1, Append(acc, SubSeq(s, i, j)))

\* Lines 131-132: content || '' and content.match(...) || [content]; match
\* gives null when nothing matches, which is the case of the empty content.
StreamChunks(data) ==
    LET content == IF data = Null THEN <<>> ELSE data
        matches == MatchFrom(content, 1, <<>>)
    IN  IF Len(matches) = 0 THEN <<content>> ELSE matches

\* Lines 135-149: the frame 'data: <json of chunkResponse>\n\n'.
ChunkFrame(chunk) ==
    [data |-> "chat.completion.chunk", content |-> chunk, finish_reason |-> Null]

\* Line 155: the frame 'data: [DONE]\n\n'.
DoneFrame == [data |-> "[DONE]", content |-> <<>>, finish_reason |-> Null]

Origins == {"allowed", "other"}

PendingUpstream == [fetch |-> "pending", ok |-> FALSE, json |-> "pending", content |-> Null]

\* The handler before its first request.  sent lists the complete JSON
\* responses, calls the response-sending calls executed after line 105.
IdleClimate ==
    [pc |-> "idle", stream |-> FALSE, origin |-> "other", upstream |-> PendingUpstream,
     chunks |-> <<>>, status |-> 0, contentType |-> "", frames |-> <<>>,
     sent |-> <<>>, calls |-> <<>>, ended |-> FALSE, escaped |-> FALSE,
     crashed |-> FALSE, served |-> 0]

serverVars ==
    <<pdfFile, pdfText, pdfChunks, pdfReads, sessionMemories, pc, req, res,
      started, completed>>

InitClimate ==
    /\ pdfFile = NoFile
    /\ pdfText = Null
    /\ pdfChunks = <<>>
    /\ pdfReads = 0
    /\ sessionMemories = << >>
    /\ pc = [p \in Procs |-> "idle"]
    /\ req = [p \in Procs |-> IdleReq]
    /\ res = [p \in Procs |-> NoResponse]
    /\ started = 0
    /\ completed = <<>>
    /\ fn = "climate"
    /\ query = <<>>
    /\ retrieved = [sources |-> <<>>, systemMessage |-> <<>>]
    /\ widget = NoWidget
    /\ climate = IdleClimate

climateFrame == <<serverVars, fn, query, retrieved, widget>>

\* Lines 77-91: the handler runs to the await of fetch.
ClimateReceive(stream, origin) ==
    /\ climate.pc \in {"idle", "done"}
    /\ ~climate.crashed
    /\ climate.served < MaxClimate
    /\ climate' = [IdleClimate EXCEPT !.pc = "fetch", !.stream = stream,
                                      !.origin = origin, !.served = climate.served]
    /\ UNCHANGED climateFrame

\* Line 91 resumes with a response; the handler awaits response.json(), line 105.
FetchResolved(ok) ==
    /\ climate.pc = "fetch"
    /\ climate' = [climate EXCEPT !.pc = "responseJson",
                                  !.upstream.fetch = "resolved", !.upstream.ok = ok]
    /\ UNCHANGED climateFrame

\* Lines 214-223 entered with nothing sent yet: the 500 envelope.
Caught(c) ==
    [c EXCEPT !.pc = "done", !.status = 500, !.contentType = "application/json",
              !.sent = Append(@, [status |-> 500, code |-> "server_error"]),
              !.calls = Append(@, "res.json:216"),
              !.ended = TRUE, !.served = @ + 1]

\* fetch rejects: the catch of lines 214-223.
FetchRejected ==
    /\ climate.pc = "fetch"
    /\ climate' = Caught([climate EXCEPT !.upstream.fetch = "rejected"])
    /\ UNCHANGED climateFrame

\* response.json() rejects (the body is not JSON): the catch of lines 214-223.
JsonRejected ==
    /\ climate.pc = "responseJson"
    /\ climate' = Caught([climate EXCEPT !.upstream.json = "rejected"])
    /\ UNCHANGED climateFrame

\* Lines 107-117: the upstream answered with an error status.
UpstreamError ==
    /\ climate.pc = "responseJson"
    /\ ~climate.upstream.ok
    /\ climate' = [climate EXCEPT !.pc = "done", !.upstream.json = "resolved",
                                  !.status = 429, !.contentType = "application/json",
                                  !.sent = Append(@, [status |-> 429, code |-> "unknown_error"]),
                                  !.calls = Append(@, "res.json:109"),
                                  !.ended = TRUE, !.served = @ + 1]
    /\ UNCHANGED climateFrame

\* Lines 123-151 with stream=true: the headers, the chunks, the first frame, and
\* the await of the timer.
StreamStart(data) ==
    /\ climate.pc = "responseJson"
    /\ climate.upstream.ok
    /\ climate.stream
    /\ LET chunks == StreamChunks(data)
       IN  climate' = [climate EXCEPT !.pc = "delay", !.upstream.json = "resolved",
                                      !.upstream.content = data,
                                      !.status = 200, !.contentType = "text/event-stream",
                                      !.frames = <<ChunkFrame(chunks[1])>>,
                                      !.chunks = Tail(chunks)]
    /\ UNCHANGED climateFrame

\* Line 151 resumes: the next frame and the timer again, or lines 155-157.
StreamNext ==
    /\ climate.pc = "delay"
    /\ climate' = IF climate.chunks # <<>>
                  THEN [climate EXCEPT !.frames = Append(@, ChunkFrame(climate.chunks[1])),
                                       !.chunks = Tail(@)]
                  ELSE [climate EXCEPT !.pc = "done", !.frames = Append(@, DoneFrame),
                                       !.ended = TRUE, !.served = @ + 1]
    /\ UNCHANGED climateFrame

\* Lines 158-223 without stream=true.  res.json at line 202 sends the response;
\* there is no return, so line 206 follows: for an allowed origin setHeader
\* throws (the headers are sent), otherwise line 213 throws a ReferenceError
\* (formattedResponse is scoped to the else block).  The catch calls res.json
\* at line 216, which throws as well: the exception leaves the handler as a
\* rejected promise.  Whether that ends the process depends on the versions of
\* Express and Node in use.
NonStream(data, crashes) ==
    /\ climate.pc = "responseJson"
    /\ climate.upstream.ok
    /\ ~climate.stream
    /\ climate' = [climate EXCEPT !.pc = "done", !.upstream.json = "resolved",
                                  !.upstream.content = data,
                                  !.status = 500, !.contentType = "application/json",
                                  !.sent = Append(@, [status |-> 200, code |-> "chat.completion"]),
                                  !.calls = @ \o (IF climate.origin = "allowed"
                                                  THEN <<"res.json:202", "res.setHeader:208", "res.json:216">>
                                                  ELSE <<"res.json:202", "res.json:216">>),
                                  !.ended = TRUE, !.escaped = TRUE, !.crashed = crashes,
                                  !.served = @ + 1]
    /\ UNCHANGED climateFrame

NextClimate ==
    \/ \E stream \in BOOLEAN, origin \in Origins : ClimateReceive(stream, origin)
    \/ \E ok \in BOOLEAN : FetchResolved(ok)
    \/ FetchRejected
    \/ JsonRejected
    \/ UpstreamError
    \/ \E data \in UpstreamContents : StreamStart(data)
    \/ StreamNext
    \/ \E data \in UpstreamContents, crashes \in BOOLEAN : NonStream(data, crashes)

SpecClimate == InitClimate /\ [][NextClimate]_vars

\* The contents of the frames, one after another.
RECURSIVE FrameContents(_)
FrameContents(frames) ==
    IF frames = <<>> THEN <<>> ELSE Head(frames).content \o FrameContents(Tail(frames))

\* C13: with stream=true and a successful upstream call, the body is one or
\* more chunk frames, each of at most 50 characters, then one [DONE] frame,
\* which is written last and only when the response is ended; the chunk
\* contents in order of emission make up the upstream reply content.
C13_StreamFrames ==
    (climate.stream /\ climate.upstream.ok /\ climate.upstream.json = "resolved")
        => LET content == IF climate.upstream.content = Null THEN <<>>
                          ELSE climate.upstream.content
               written == climate.frames
               n == Len(written)
               chunkFrames == IF climate.ended THEN SubSeq(written, 1, n - 1) ELSE written
           IN  /\ Len(chunkFrames) >= 1
               /\ \A i \in DOMAIN chunkFrames :
                     /\ chunkFrames[i].data = "chat.completion.chunk"
                     /\ Len(chunkFrames[i].content) <= 50
               /\ climate.ended <=> written[n] = DoneFrame
               /\ climate.ended <=> climate.pc = "done"
               /\ climate.ended => FrameContents(chunkFrames) = content
               /\ ~climate.ended => IsPrefix(FrameContents(chunkFrames), content)
               /\ climate.contentType = "text/event-stream"
               /\ climate.sent = <<>>

\* C13 witness: a reply of more than 100 characters with line feeds in it has
\* been streamed in three chunk frames and the [DONE] frame.
C13_Witness ==
    /\ climate.pc = "done"
    /\ climate.stream
    /\ climate.upstream.json = "resolved"
    /\ Len(climate.upstream.content) > 2 * 50
    /\ \E i \in DOMAIN climate.upstream.content : climate.upstream.content[i] = "\n"
    /\ Len(climate.frames) = 4
    /\ climate.frames[4] = DoneFrame

\* C14: a finished request has received exactly one complete response, by one
\* response-sending call, and no exception has left the handler or ended the
\* process.
C14_OneResponseNoEscape ==
    climate.pc = "done"
        => /\ IF climate.frames # <<>> THEN climate.sent = <<>>
              ELSE Len(climate.sent) = 1
           /\ Len(climate.calls) <= 1
           /\ ~climate.escaped
           /\ ~climate.crashed

-----------------------------------------------------------------------------
\* The chat widget: class ChatInterface of webapp/src/components/chat.js.

\* Bound: the calls of _sendMessage that get past line 128 in one behaviour.
MaxSends == 2

\* String.prototype.trim.
RECURSIVE TrimStart(_)
TrimStart(s) == IF s # <<>> /\ Head(s) \in WhiteSpace THEN TrimStart(Tail(s)) ELSE s

RECURSIVE TrimEnd(_)
TrimEnd(s) ==
    IF s # <<>> /\ s[Len(s)] \in WhiteSpace THEN TrimEnd(SubSeq(s, 1, Len(s) - 1)) ELSE s

trim(s) == TrimEnd(TrimStart(s))

\* What the user types into the input field.
InputValues == {<<>>, <<" ">>, MsgHi, <<" ">> \o MsgHi}

Keys == {"Enter", "a"}

\* The bodies the backend answers with: a reply with or without sources, and a
\* body without reply.
ResponseData ==
    {[reply |-> ReplyOk, sources |-> <<DocHandbook>>],
     [reply |-> ReplyOk, sources |-> <<>>],
     [reply |-> <<>>, sources |-> <<>>]}

\* errorBody.message of a non-2xx answer; Null when the body has no message or
\* is not JSON (line 179).
ErrorBodyMessages == {<<"<MODEL ERROR>">>, Null}

\* Lines 18-25; calls lists the _sendMessage calls waiting at line 144.
InitialWidget ==
    [messages |-> <<>>, inputMessage |-> <<>>, isLoading |-> FALSE,
     isRetrieving |-> FALSE, ragEnabled |-> TRUE, calls |-> <<>>, sends |-> 0]

\* Line 100: ?disabled of the Send button.
SendDisabled(w) == w.isLoading \/ ~Truthy(trim(w.inputMessage))

\* Lines 127-144 and 167-176: up to the await of fetch.
_sendMessage(w) ==
    IF ~Truthy(trim(w.inputMessage)) THEN w
    ELSE [w EXCEPT !.messages = Append(@, [role |-> "user", content |-> w.inputMessage,
                                           sources |-> Null]),
                   !.inputMessage = <<>>,
                   !.isLoading = TRUE,
                   !.isRetrieving = IF w.ragEnabled THEN TRUE ELSE @,
                   !.calls = Append(@, [pc |-> "fetch", message |-> w.inputMessage,
                                        useRAG |-> w.ragEnabled]),
                   !.sends = @ + 1]

\* _handleKeyUp without the test of isLoading.
_handleKeyUp_NoLoadingCheck(w, key) ==
    IF key = "Enter" /\ Truthy(trim(w.inputMessage)) THEN _sendMessage(w) ELSE w

\* Lines 117-121.
_handleKeyUp(w, key) ==
    IF key = "Enter" /\ Truthy(trim(w.inputMessage)) /\ ~w.isLoading
    THEN _sendMessage(w) ELSE w

\* Lines 113-115.
_handleInput(w, value) == [w EXCEPT !.inputMessage = value]

\* Lines 123-125.
_toggleRag(w, checked) == [w EXCEPT !.ragEnabled = checked]

\* Lines 108-111.
_clearCache(w) == [w EXCEPT !.messages = <<>>]

\* s without its i-th element.
RemoveAt(s, i) == SubSeq(s, 1, i - 1) \o SubSeq(s, i + 1, Len(s))

\* The catch of lines 155-161 without the finally.
Failed_NoFinally(w, i, errMessage) ==
    [w EXCEPT !.isRetrieving = FALSE,
              !.messages = Append(@, [role |-> "assistant",
                                      content |-> <<"<SORRY>">> \o errMessage,
                                      sources |-> <<>>]),
              !.calls = RemoveAt(@, i)]

\* Line 144 throws, or line 153 does: lines 155-164.
Failed(w, i, errMessage) ==
    [w EXCEPT !.isRetrieving = FALSE,
              !.messages = Append(@, [role |-> "assistant",
                                      content |-> <<"<SORRY>">> \o errMessage,
                                      sources |-> <<>>]),
              !.isLoading = FALSE,
              !.calls = RemoveAt(@, i)]

\* Line 144 resumes with the body: lines 145-154 and 162-164.
Resumed(w, i, data) ==
    IF Truthy(data.reply)
    THEN [w EXCEPT !.isRetrieving = FALSE,
                   !.messages = Append(@, [role |-> "assistant", content |-> data.reply,
                                           sources |-> data.sources]),
                   !.isLoading = FALSE,
                   !.calls = RemoveAt(@, i)]
    ELSE Failed([w EXCEPT !.isRetrieving = FALSE], i, <<"<INVALID RESPONSE STRUCTURE>">>)

InitWidget ==
    /\ pdfFile = NoFile
    /\ pdfText = Null
    /\ pdfChunks = <<>>
    /\ pdfReads = 0
    /\ sessionMemories = << >>
    /\ pc = [p \in Procs |-> "idle"]
    /\ req = [p \in Procs |-> IdleReq]
    /\ res = [p \in Procs |-> NoResponse]
    /\ started = 0
    /\ completed = <<>>
    /\ fn = "widget"
    /\ query = <<>>
    /\ retrieved = [sources |-> <<>>, systemMessage |-> <<>>]
    /\ widget = InitialWidget
    /\ climate = NoClimate

widgetFrame == <<serverVars, fn, query, retrieved, climate>>

\* The user types: @input, line 97.
HandleInput(value) ==
    /\ widget' = _handleInput(widget, value)
    /\ UNCHANGED widgetFrame

\* The user clicks Send, which the browser allows on an enabled button only.
ClickSend ==
    /\ ~SendDisabled(widget)
    /\ widget.sends < MaxSends
    /\ widget' = _sendMessage(widget)
    /\ UNCHANGED widgetFrame

\* The user releases a key in the input field: @keyup, line 98.
KeyUp(key) ==
    /\ widget.sends < MaxSends
    /\ widget' = _handleKeyUp(widget, key)
    /\ UNCHANGED widgetFrame

\* The user switches the check box: @change, line 57.
ToggleRag(checked) ==
    /\ widget' = _toggleRag(widget, checked)
    /\ UNCHANGED widgetFrame

\* The user clicks Clear Chat: @click, line 55.
ClearChat ==
    /\ widget' = _clearCache(widget)
    /\ UNCHANGED widgetFrame

\* Line 169 resumes with a response: the await of res.json(), line 179 or 183.
ApiFetchResolved(i, ok) ==
    /\ i \in DOMAIN widget.calls
    /\ widget.calls[i].pc = "fetch"
    /\ widget' = [widget EXCEPT !.calls[i].pc = IF ok THEN "json" ELSE "errorJson"]
    /\ UNCHANGED widgetFrame

\* fetch rejects: lines 185-188 rethrow, lines 155-164 follow.
ApiFetchRejected(i) ==
    /\ i \in DOMAIN widget.calls
    /\ widget.calls[i].pc = "fetch"
    /\ widget' = Failed(widget, i, <<"<FETCH FAILED>">>)
    /\ UNCHANGED widgetFrame

\* Line 179 settles: line 180 throws with the body's message or the status.
ApiErrorBody(i, message) ==
    /\ i \in DOMAIN widget.calls
    /\ widget.calls[i].pc = "errorJson"
    /\ widget' = Failed(widget, i, IF Truthy(message) THEN message
                                   ELSE <<"<REQUEST FAILED WITH STATUS>">>)
    /\ UNCHANGED widgetFrame

\* Line 183 resumes with the parsed body.
ApiJsonResolved(i, data) ==
    /\ i \in DOMAIN widget.calls
    /\ widget.calls[i].pc = "json"
    /\ widget' = Resumed(widget, i, data)
    /\ UNCHANGED widgetFrame

\* Line 183 rejects: the body is not JSON.
ApiJsonRejected(i) ==
    /\ i \in DOMAIN widget.calls
    /\ widget.calls[i].pc = "json"
    /\ widget' = Failed(widget, i, <<"<SYNTAX ERROR>">>)
    /\ UNCHANGED widgetFrame

\* The backend call of some _sendMessage settles.
Settle ==
    \E i \in 1..MaxSends :
        \/ \E ok \in BOOLEAN : ApiFetchResolved(i, ok)
        \/ ApiFetchRejected(i)
        \/ \E message \in ErrorBodyMessages : ApiErrorBody(i, message)
        \/ \E data \in ResponseData : ApiJsonResolved(i, data)
        \/ ApiJsonRejected(i)

NextWidget ==
    \/ \E value \in InputValues : HandleInput(value)
    \/ ClickSend
    \/ \E key \in Keys : KeyUp(key)
    \/ \E checked \in BOOLEAN : ToggleRag(checked)
    \/ ClearChat
    \/ Settle

SpecWidget == InitWidget /\ [][NextWidget]_vars

\* Every pending fetch and every pending res.json() settles.
SpecWidgetFair == SpecWidget /\ WF_vars(Settle)

\* C18: the displayed messages alternate user, assistant, user, assistant, ...
\* from a user message on, and with no request in flight every user message
\* has its assistant message.
C18_MessagesAlternate ==
    /\ \A i \in DOMAIN widget.messages :
          widget.messages[i].role = (IF i % 2 = 1 THEN "user" ELSE "assistant")
    /\ widget.calls = <<>> => Len(widget.messages) % 2 = 0

\* C19: at most one backend request is in flight, and isLoading is true while
\* it is; a request starts only with isLoading false, none in flight, and an
\* input that is not empty after trimming, which is the message it carries.
C19_OneRequestInFlight ==
    [][/\ Len(widget.calls') <= 1
       /\ widget.calls' # <<>> => widget.isLoading'
       /\ widget.sends' # widget.sends
             => /\ ~widget.isLoading
                /\ widget.calls = <<>>
                /\ trim(widget.inputMessage) # <<>>
                /\ Len(widget.calls') = 1
                /\ widget.calls'[1].message = widget.inputMessage
                /\ widget.calls'[1].useRAG = widget.ragEnabled
       /\ Len(widget.calls') > Len(widget.calls) => widget.sends' = widget.sends + 1]_vars

\* C19 witness: a request is in flight and the user has typed the next
\* message, which neither the button nor the Enter key sends.
C19_Witness ==
    /\ widget.isLoading
    /\ Len(widget.calls) = 1
    /\ trim(widget.inputMessage) # <<>>
    /\ widget.sends < MaxSends
    /\ SendDisabled(widget)
    /\ _handleKeyUp(widget, "Enter") = widget

\* C20: isRetrieving implies isLoading, and, every backend call settling, a
\* widget that is loading comes to isLoading = false and isRetrieving = false.
C20_LoadingEnds ==
    /\ [](widget.isRetrieving => widget.isLoading)
    /\ [](widget.isLoading => <>(~widget.isLoading /\ ~widget.isRetrieving))

\* C20 witness: a request sent with the handbook switched on has ended with the
\* error text for a failed call, and the widget is not loading any more.
C20_Witness ==
    /\ widget.sends = 1
    /\ widget.calls = <<>>
    /\ ~widget.isLoading
    /\ ~widget.isRetrieving
    /\ Len(widget.messages) = 2
    /\ widget.messages[2].content = <<"<SORRY>", "<FETCH FAILED>">>

====
